---- MODULE Spec2Model ----
(***************************************************************************)
(* SearchResponseBuilder of ga4gh/protocol.py: a buffer that appends       *)
(* protocol elements to the value list of a search response under a count  *)
(* cap (pageSize) and a size cap (maxResponseLength), together with the    *)
(* JSON conversion it is serialised with.                                  *)
(*                                                                         *)
(* A protocol buffer message is a record of its fields (proto3: a scalar   *)
(* field holding its default value is "not set").  A JSON document is the  *)
(* function from its keys to their values; DumpsLen gives the length of    *)
(* the text json.dumps writes for it.  Python's None is the empty tuple    *)
(* and a string s that may also be None is held as <<s>>.                  *)
(***************************************************************************)
EXTENDS Integers, Sequences, FiniteSets, TLC

VARIABLES
    responseClass,      \* self._responseClass
    valueListName,      \* self._valueListName
    pageSize,           \* self._pageSize
    maxResponseLength,  \* self._maxResponseLength
    numElements,        \* self._numElements
    nextPageToken,      \* self._nextPageToken
    protoObject,        \* self._protoObject
    op,                 \* the method called last
    argument,           \* the argument it was called with, under op
    returned,           \* what it returned, under op
    exc,                \* what it raised ("" when it returned)
    repeated,           \* the call before it was of the same method
    addCalls,           \* how many times addValue was called
    lastTokenArg,       \* <<t>> for the latest setNextPageToken(t)
    ctorArgs,           \* the pageSize and maxResponseLength __init__ was given
    call,               \* the module-level function called last, with its input
    result              \* what that function returned or raised

vars == <<responseClass, valueListName, pageSize, maxResponseLength,
          numElements, nextPageToken, protoObject,
          op, argument, returned, exc, repeated, addCalls, lastTokenArg,
          ctorArgs, call, result>>

\* what the functions outside the builder are observed through
functions == <<call, result>>

builder == <<responseClass, valueListName, pageSize, maxResponseLength,
             numElements, nextPageToken, protoObject>>

----------------------------------------------------------------------------
(* Bounds of the model *)

\* addValue is called at most MaxAdds times on one builder
MaxAdds == 5
\* the page sizes a builder is constructed with are -1 .. MaxPageSize
MaxPageSize == 3
\* the fill loop is run for numValues in 1 .. MaxNumValues
MaxNumValues == 3

----------------------------------------------------------------------------
(* Python values *)

None == << >>

Str(s) == << s >>

\* the strings a caller passes as page token
Tokens == {"", "string"}

DEFAULT_STRING == ""

\* ga4gh/pb.py: the value, or the default string when it is None
string(value) == IF value = None THEN DEFAULT_STRING ELSE value[1]

----------------------------------------------------------------------------
(* The protocol classes *)

valueListNameMap ==
    [c \in {"SearchVariantSetsResponse", "SearchVariantsResponse",
            "SearchDatasetsResponse", "SearchReferenceSetsResponse",
            "SearchReferencesResponse", "SearchReadGroupSetsResponse",
            "SearchReadsResponse", "SearchCallSetsResponse"} |->
        CASE c = "SearchVariantSetsResponse" -> "variant_sets"
          [] c = "SearchVariantsResponse" -> "variants"
          [] c = "SearchDatasetsResponse" -> "datasets"
          [] c = "SearchReferenceSetsResponse" -> "reference_sets"
          [] c = "SearchReferencesResponse" -> "references"
          [] c = "SearchReadGroupSetsResponse" -> "read_group_sets"
          [] c = "SearchReadsResponse" -> "alignments"
          [] c = "SearchCallSetsResponse" -> "call_sets"]

getValueListName(protocolResponseClass) ==
    valueListNameMap[protocolResponseClass]

\* the response classes whose descriptors reference_service_pb2 defines
ResponseClasses == {"SearchReferenceSetsResponse", "SearchReferencesResponse"}

\* message type of the elements of a response class's value list
ValueClass(c) ==
    CASE c = "SearchReferenceSetsResponse" -> "ReferenceSet"
      [] c = "SearchReferencesResponse" -> "Reference"

\* field.camelcase_name of the fields of the response classes
camelcase_name(name) ==
    CASE name = "reference_sets" -> "referenceSets"
      [] name = "references" -> "references"
      [] name = "next_page_token" -> "nextPageToken"
      [] name = "id" -> "id"

\* field numbers of the value list and of the token in a response message
VALUE_LIST_NUMBER == 1
NEXT_PAGE_TOKEN_NUMBER == 2
\* field number of the string field an element carries
ID_NUMBER == 1

\* a new instance of a response class: every field at its default
NewResponse(c) ==
    (getValueListName(c) :> << >>) @@ ("next_page_token" :> DEFAULT_STRING)

\* TypicalInstanceCreator.handleString
TypicalString == "aString"

\* an element: a message of class cls whose string field holds id
Element(cls, id) == [id |-> id, cls |-> cls]

TypicalInstance(cls) == Element(cls, TypicalString)

DefaultInstance(cls) == Element(cls, DEFAULT_STRING)

\* the elements a caller passes to addValue
Elements ==
    {TypicalInstance(ValueClass(c)) : c \in ResponseClasses} \cup
    {DefaultInstance(ValueClass(c)) : c \in ResponseClasses}

----------------------------------------------------------------------------
(* Message.ByteSize(): the length of the binary encoding *)

RECURSIVE VarintSize(_)
VarintSize(n) == IF n < 128 THEN 1 ELSE 1 + VarintSize(n \div 128)

\* the tag of a field: its number and three bits of wire type, as a varint
TagSize(number) == VarintSize(number * 8)

\* a length-delimited field: tag, length, payload
LengthDelimitedSize(number, len) == TagSize(number) + VarintSize(len) + len

\* a singular string field; proto3 does not encode the default value
StringFieldSize(number, s) ==
    IF s = DEFAULT_STRING THEN 0 ELSE LengthDelimitedSize(number, Len(s))

ElementByteSize(e) == StringFieldSize(ID_NUMBER, e.id)

RECURSIVE RepeatedByteSize(_)
RepeatedByteSize(values) ==
    IF values = << >> THEN 0
    ELSE LengthDelimitedSize(VALUE_LIST_NUMBER, ElementByteSize(Head(values)))
         + RepeatedByteSize(Tail(values))

ByteSize(listName, obj) ==
    RepeatedByteSize(obj[listName])
    + StringFieldSize(NEXT_PAGE_TOKEN_NUMBER, obj["next_page_token"])

----------------------------------------------------------------------------
(* JSON conversion *)

\* json_format._MessageToJsonObject(message, False) of an element:
\* only the fields that are set, under their camel case names
ElementToJsonObject(e) ==
    IF e.id = DEFAULT_STRING THEN << >>
    ELSE (camelcase_name("id") :> e.id)

ListToJsonObject(values) ==
    [i \in 1..Len(values) |-> ElementToJsonObject(values[i])]

\* _MessageToJsonObject that writes the fields at their default too
MessageToJsonObjectAll(listName, obj) ==
    (camelcase_name(listName) :> ListToJsonObject(obj[listName]))
    @@ (camelcase_name("next_page_token") :> obj["next_page_token"])

\* json_format._MessageToJsonObject(message, False) of a response
MessageToJsonObject(listName, obj) ==
    LET list == IF obj[listName] = << >> THEN << >>
                ELSE (camelcase_name(listName) :>
                          ListToJsonObject(obj[listName]))
        token == IF obj["next_page_token"] = DEFAULT_STRING THEN << >>
                 ELSE (camelcase_name("next_page_token") :>
                          obj["next_page_token"])
    IN  list @@ token

\* toJson of a response: the JSON document json.dumps writes out
toJson(listName, obj) == MessageToJsonObject(listName, obj)

\* toJson of an element
elementToJson(e) == ElementToJsonObject(e)

RECURSIVE SumLen(_, _)
SumLen(js, keys) ==
    IF keys = {} THEN 0
    ELSE LET k == CHOOSE k \in keys : TRUE
         IN  \* newline, indent, "key", colon and space, "value"
             1 + 2 + (Len(k) + 2) + 2 + (Len(js[k]) + 2)
             + SumLen(js, keys \ {k})

\* len(json.dumps(js, indent=2)) of a JSON object of string members
DumpsLen(js) ==
    IF DOMAIN js = {} THEN 2
    ELSE \* brace, members, ", " between members, newline, brace
         1 + SumLen(js, DOMAIN js) + 2 * (Cardinality(DOMAIN js) - 1) + 1 + 1

\* json_format.Parse of an element of class cls
ParseElement(js, cls) ==
    Element(cls, IF camelcase_name("id") \in DOMAIN js
                 THEN js[camelcase_name("id")] ELSE DEFAULT_STRING)

\* fromJson: json_format.Parse(json, protoClass()) of a response
fromJson(json, protoClass) ==
    LET listName == getValueListName(protoClass)
        key == camelcase_name(listName)
        list == IF key \in DOMAIN json THEN json[key] ELSE << >>
        token == IF camelcase_name("next_page_token") \in DOMAIN json
                 THEN json[camelcase_name("next_page_token")]
                 ELSE DEFAULT_STRING
    IN  (listName :> [i \in 1..Len(list) |->
                         ParseElement(list[i], ValueClass(protoClass))])
        @@ ("next_page_token" :> token)

----------------------------------------------------------------------------------------------------------------------------------------
(* SearchResponseBuilder *)

\* len(protocol.toJson(typicalValue)) of the element class of c
typicalValueLength(c) == DumpsLen(elementToJson(TypicalInstance(ValueClass(c))))

\* a cap no response of the model reaches (the tests pass 2**32)
NeverReached == 1000000

\* the page size of testMaxResponseLengthOverridesPageSize
LargePageSize == 1000

\* the encoded size of the longest page token
TokenSize == StringFieldSize(NEXT_PAGE_TOKEN_NUMBER, "string")

\* the caps a builder is constructed with
PageSizes == -1 .. MaxPageSize

MaxResponseLengths(c) ==
    {-1, 0, TokenSize, typicalValueLength(c), NeverReached}

\* SearchResponseBuilder.__init__
Construct(class, ps, mrl) ==
    /\ responseClass = class
    /\ pageSize = ps
    /\ maxResponseLength = mrl
    /\ numElements = 0
    /\ nextPageToken = None
    /\ protoObject = NewResponse(class)
    /\ valueListName = getValueListName(class)
    /\ op = "__init__"
    /\ argument = [of |-> "__init__", val |-> None]
    /\ returned = [of |-> "__init__", val |-> None]
    /\ exc = ""
    /\ repeated = FALSE
    /\ addCalls = 0
    /\ lastTokenArg = << >>
    /\ ctorArgs = <<ps, mrl>>
    /\ call = [fn |-> "none"]
    /\ result = None

Init ==
    \E class \in ResponseClasses, ps \in PageSizes :
        \E mrl \in MaxResponseLengths(class) : Construct(class, ps, mrl)

\* what the last call was, was given, returned and raised
Called(name, given, value, raised) ==
    /\ op' = name
    /\ argument' = [of |-> name, val |-> given]
    /\ returned' = [of |-> name, val |-> value]
    /\ exc' = raised
    /\ repeated' = (op = name)
    /\ UNCHANGED <<ctorArgs, functions>>

\* the argument of the last call
arg == argument.val

\* what the last call returned
ret == returned.val

Config == <<responseClass, valueListName, pageSize, maxResponseLength>>

\* getPageSize that answers with the number of elements left
getPageSizeLeft ==
    /\ Called("getPageSize", None, pageSize - numElements, "")
    /\ UNCHANGED <<builder, addCalls, lastTokenArg>>

getPageSize ==
    /\ Called("getPageSize", None, pageSize, "")
    /\ UNCHANGED <<builder, addCalls, lastTokenArg>>

getMaxResponseLength ==
    /\ Called("getMaxResponseLength", None, maxResponseLength, "")
    /\ UNCHANGED <<builder, addCalls, lastTokenArg>>

getNextPageToken ==
    /\ Called("getNextPageToken", None, nextPageToken, "")
    /\ UNCHANGED <<builder, addCalls, lastTokenArg>>

setNextPageToken(token) ==
    /\ nextPageToken' = token
    /\ lastTokenArg' = <<token>>
    /\ Called("setNextPageToken", token, None, "")
    /\ UNCHANGED <<Config, numElements, protoObject, addCalls>>

\* the builder's fields after addValue(protocolElement), and what it raised:
\* attr.add() appends a new element, CopyFrom fills it and raises TypeError
\* when the argument is of another class
AddValueChecked(protocolElement) ==
    LET cls == ValueClass(responseClass)
        attr == protoObject[valueListName]
        obj == DefaultInstance(cls)
    IN  IF protocolElement.cls = cls
        THEN [numElements |-> numElements + 1,
              protoObject |-> [protoObject EXCEPT
                  ![valueListName] = Append(attr, protocolElement)],
              exc |-> ""]
        ELSE [numElements |-> numElements + 1,
              protoObject |-> [protoObject EXCEPT
                  ![valueListName] = Append(attr, obj)],
              exc |-> "TypeError"]

\* isFull that wants a cap exceeded
isFullStrict(ps, mrl, n, listName, obj) ==
    \/ (ps > 0 /\ n > ps)
    \/ (mrl > 0 /\ ByteSize(listName, obj) > mrl)

\* isFull that wants the count on the cap
isFullExact(ps, mrl, n, listName, obj) ==
    \/ (ps > 0 /\ n = ps)
    \/ (mrl > 0 /\ ByteSize(listName, obj) >= mrl)

\* isFull that wants both caps reached
isFullBoth(ps, mrl, n, listName, obj) ==
    /\ (ps > 0 /\ n >= ps)
    /\ (mrl > 0 /\ ByteSize(listName, obj) >= mrl)

\* isFull that takes a cap of 0 as a cap
isFullFromZero(ps, mrl, n, listName, obj) ==
    \/ (ps >= 0 /\ n >= ps)
    \/ (mrl >= 0 /\ ByteSize(listName, obj) >= mrl)

\* the value of isFull() on a builder with these fields
isFull(ps, mrl, n, listName, obj) ==
    \/ (ps > 0 /\ n >= ps)
    \/ (mrl > 0 /\ ByteSize(listName, obj) >= mrl)

IsFullNow ==
    isFull(pageSize, maxResponseLength, numElements, valueListName, protoObject)

\* addValue that leaves a full builder alone
AddValueCapped(protocolElement) ==
    IF IsFullNow
    THEN [numElements |-> numElements, protoObject |-> protoObject, exc |-> ""]
    ELSE AddValueChecked(protocolElement)

\* addValue that counts an element only once it is copied
AddValueCountLast(protocolElement) ==
    LET r == AddValueChecked(protocolElement)
    IN  IF r.exc = "" THEN r ELSE [r EXCEPT !.numElements = numElements]

AddValue(protocolElement) == AddValueChecked(protocolElement)

addValue(protocolElement) ==
    LET r == AddValue(protocolElement)
    IN  /\ numElements' = r.numElements
        /\ protoObject' = r.protoObject
        /\ addCalls' = addCalls + 1
        /\ Called("addValue", protocolElement, None, r.exc)
        /\ UNCHANGED <<Config, nextPageToken, lastTokenArg>>

isFullCall ==
    /\ Called("isFull", None, IsFullNow, "")
    /\ UNCHANGED <<builder, addCalls, lastTokenArg>>

\* the container with a token stored only while it holds none
WithTokenOnce(obj, token) ==
    IF obj["next_page_token"] = DEFAULT_STRING
    THEN [obj EXCEPT !["next_page_token"] = string(token)]
    ELSE obj

\* the container after getSerializedResponse stored the token in it
WithToken(obj, token) == [obj EXCEPT !["next_page_token"] = string(token)]

\* getSerializedResponse that hands the token over and forgets it
getSerializedResponseOnce ==
    /\ protoObject' = WithToken(protoObject, nextPageToken)
    /\ nextPageToken' = None
    /\ Called("getSerializedResponse", None,
              toJson(valueListName, protoObject'), "")
    /\ UNCHANGED <<Config, numElements, addCalls, lastTokenArg>>

getSerializedResponse ==
    /\ protoObject' = WithToken(protoObject, nextPageToken)
    /\ Called("getSerializedResponse", None,
              toJson(valueListName, protoObject'), "")
    /\ UNCHANGED <<Config, numElements, nextPageToken, addCalls, lastTokenArg>>

\* the arguments the callers pass
TokenArgs == {None} \cup {Str(t) : t \in Tokens}

Next ==
    \/ getPageSize
    \/ getMaxResponseLength
    \/ getNextPageToken
    \/ \E token \in TokenArgs : setNextPageToken(token)
    \/ \E protocolElement \in Elements :
           addCalls < MaxAdds /\ addValue(protocolElement)
    \/ isFullCall
    \/ getSerializedResponse

Spec == Init /\ [][Next]_vars

----------------------------------------------------------------------------
(* The fill loop of the tests:                                             *)
(*     while not builder.isFull(): builder.addValue(typicalValue)          *)
(*     instance = fromJson(builder.getSerializedResponse(), responseClass) *)

\* maxResponseLength = numValues * typicalValueLength
FillLengths(c) ==
    {numValues * typicalValueLength(c) : numValues \in 1 .. MaxNumValues}

FillInit ==
    \E class \in ResponseClasses :
        \E ps \in (1 .. MaxPageSize) \cup {LargePageSize},
           mrl \in FillLengths(class) \cup {NeverReached} :
            /\ ~(ps = LargePageSize /\ mrl = NeverReached)
            /\ Construct(class, ps, mrl)

FillTest ==
    /\ op \in {"__init__", "addValue"}
    /\ isFullCall

FillAdd ==
    /\ op = "isFull" /\ ret = FALSE
    /\ addValue(TypicalInstance(ValueClass(responseClass)))

FillEnd ==
    /\ op = "isFull" /\ ret = TRUE
    /\ getSerializedResponse

FillNext == FillTest \/ FillAdd \/ FillEnd

FillSpec == FillInit /\ [][FillNext]_vars

\* the test runs the loop to its end: no step of it is left undone
FillFairSpec == FillSpec /\ WF_vars(FillNext)

----------------------------------------------------------------------------
(* Properties                                                              *)

\* the value list of the container
ValueList == protoObject[valueListName]

\* the size cap is enabled and the container has reached it
SizeCapReached ==
    maxResponseLength > 0
    /\ ByteSize(valueListName, protoObject) >= maxResponseLength

\* the response a client reads from the string the last call returned
Deserialized == fromJson(ret, responseClass)

CountIsNumberOfAdds ==
    /\ numElements = addCalls
    /\ op = "getSerializedResponse" =>
           Len(Deserialized[valueListName]) = addCalls

CountIsNumberOfAddsWitness ==
    /\ op = "getSerializedResponse"
    /\ addCalls = 3
    /\ lastTokenArg # << >>
    /\ Len(Deserialized[valueListName]) = 3

\* C3: with pageSize = p >= 1 and the size cap disabled or not reached,
\* isFull() after the j-th addValue is false for j < p and true for j >= p,
\* also when values are added past the cap.
FullFromPageSizeOn ==
    (op = "isFull" /\ pageSize >= 1 /\ ~SizeCapReached) =>
        (ret <=> addCalls >= pageSize)

FullFromPageSizeOnWitness ==
    /\ op = "isFull" /\ ret = TRUE
    /\ pageSize = 3 /\ addCalls = 2 * pageSize - 1
    /\ ~SizeCapReached

\* C4: with pageSize = 1000 and maxResponseLength = N times the length of
\* the typical value's JSON, the fill loop leaves exactly N values in the
\* response.
FillStopsAtNumValues ==
    (op = "getSerializedResponse" /\ pageSize = LargePageSize) =>
        Len(Deserialized[valueListName]) * typicalValueLength(responseClass)
            = maxResponseLength

\* C5: once isFull() is true it stays true after every addValue,
\* setNextPageToken and getSerializedResponse.
FullIsTerminal == [][IsFullNow => IsFullNow']_vars

\* C6: with pageSize <= 0 isFull() is true only through the size cap, and
\* with both caps <= 0 it is false in every state.
NonPositivePageSizeIsNoCap ==
    /\ (op = "isFull" /\ pageSize <= 0) => (ret <=> SizeCapReached)
    /\ (pageSize <= 0 /\ maxResponseLength <= 0) => ~IsFullNow

NonPositivePageSizeIsNoCapWitness ==
    /\ op = "isFull" /\ ret = FALSE
    /\ pageSize = 0 /\ maxResponseLength <= 0
    /\ addCalls = MaxAdds

\* C7 as stated: a builder whose token was never set serializes with the
\* token field present and equal to the empty string.
UnsetTokenIsWrittenEmpty ==
    (op = "getSerializedResponse" /\ lastTokenArg = << >>) =>
        /\ camelcase_name("next_page_token") \in DOMAIN ret
        /\ ret[camelcase_name("next_page_token")] = ""

\* C7 amended: a builder whose token was never set holds the empty string
\* in its container after serialization, its JSON has no token field, the
\* response deserialized from it has the empty string as token, and
\* getNextPageToken() returns None.
UnsetTokenIsLeftOut ==
    /\ (op = "getSerializedResponse" /\ lastTokenArg = << >>) =>
           /\ protoObject["next_page_token"] = ""
           /\ camelcase_name("next_page_token") \notin DOMAIN ret
           /\ Deserialized["next_page_token"] = ""
    /\ (op = "getNextPageToken" /\ lastTokenArg = << >>) => ret = None

UnsetTokenIsLeftOutWitness ==
    /\ op = "getSerializedResponse" /\ lastTokenArg = << >>
    /\ addCalls > 0
    /\ camelcase_name(valueListName) \in DOMAIN ret

\* C8: getNextPageToken() returns the token set last, and the response
\* deserialized from getSerializedResponse() carries that token, whatever
\* an earlier serialization stored in the container.
LatestTokenIsServed ==
    lastTokenArg # << >> =>
        /\ nextPageToken = lastTokenArg[1]
        /\ op = "getNextPageToken" => ret = lastTokenArg[1]
        /\ (op = "getSerializedResponse" /\ lastTokenArg[1] # None) =>
               Deserialized["next_page_token"] = lastTokenArg[1][1]
        /\ (op = "setNextPageToken" /\ lastTokenArg[1] # None) =>
               fromJson(toJson(valueListName,
                               WithToken(protoObject, nextPageToken)),
                        responseClass)["next_page_token"] = lastTokenArg[1][1]

LatestTokenIsServedWitness ==
    /\ op = "setNextPageToken"
    /\ lastTokenArg = <<Str("")>>
    /\ protoObject["next_page_token"] = "string"

\* C9: addValue of an element of the value list's class on a builder that
\* is full does not raise: it appends the element and the count grows by
\* one.
AddPastTheCap ==
    [][(IsFullNow /\ op' = "addValue"
            /\ arg'.cls = ValueClass(responseClass)) =>
           /\ exc' = ""
           /\ numElements' = numElements + 1
           /\ ValueList' = Append(ValueList, arg')]_vars

AddPastTheCapWitness ==
    /\ op = "addValue" /\ exc = ""
    /\ pageSize > 0 /\ numElements > pageSize
    /\ ValueList[numElements] = arg

\* C10: of two calls of getSerializedResponse in a row, the second returns
\* the string the first returned and leaves the builder as the first left
\* it.
SerializeTwice ==
    [][(op = "getSerializedResponse" /\ op' = "getSerializedResponse") =>
           (ret' = ret /\ builder' = builder)]_vars

SerializeTwiceWitness ==
    /\ op = "getSerializedResponse" /\ repeated
    /\ nextPageToken = Str("string")
    /\ numElements > 0

----------------------------------------------------------------------------
(* Properties of the value list                                            *)

\* C21: every addValue(v) appends v itself at the end of the value list, so
\* that after addValue(v1), ..., addValue(vk) the list is [v1, ..., vk], and
\* no other operation changes the list.
AppendsTheValuePassed ==
    [][/\ op' = "addValue" => ValueList' = Append(ValueList, arg')
       /\ op' # "addValue" => ValueList' = ValueList]_vars

\* C30: a call of addValue that raises leaves the count, the value list
\* and the value of isFull() as they were before the call.
FailedAddLeavesTheBuilder ==
    [][(op' = "addValue" /\ exc' # "") =>
           /\ numElements' = numElements
           /\ ValueList' = ValueList
           /\ IsFullNow' = IsFullNow]_vars

----------------------------------------------------------------------------
(* Properties of the fill loop and of the builder's frame                  *)

\* C11: for every pageSize >= 1 with the size cap not reached, the loop
\* "while not isFull(): addValue(v)" on a new builder ends, and the
\* serialized response then holds exactly pageSize values.
FillEndsWithPageSize ==
    /\ [](op = "getSerializedResponse" /\ maxResponseLength = NeverReached
              => Len(Deserialized[valueListName]) = pageSize)
    /\ (maxResponseLength = NeverReached
            => <>(op = "getSerializedResponse"
                    /\ Len(Deserialized[valueListName]) = pageSize))

FillEndsWithPageSizeWitness ==
    /\ op = "getSerializedResponse"
    /\ maxResponseLength = NeverReached
    /\ pageSize = MaxPageSize
    /\ addCalls = MaxPageSize

\* C12: a new builder, before any value is added and before any token is
\* stored in it, is not full whatever the two caps are, and getPageSize()
\* and getMaxResponseLength() return the constructor's arguments after any
\* sequence of calls.
NewBuilderIsNotFull ==
    /\ (op = "isFull" /\ addCalls = 0
            /\ protoObject["next_page_token"] = DEFAULT_STRING)
           => ret = FALSE
    /\ op = "getPageSize" => ret = ctorArgs[1]
    /\ op = "getMaxResponseLength" => ret = ctorArgs[2]

NewBuilderIsNotFullWitness ==
    /\ op = "getPageSize" /\ ret = 0
    /\ ctorArgs[2] = -1
    /\ addCalls = 2
    /\ lastTokenArg # << >>

\* C19: isFull(), the getters and getSerializedResponse() leave the count,
\* the value list and the value of a following isFull() as they were.
OnlyAddAndSetTokenChange ==
    [][op' \in {"isFull", "getPageSize", "getMaxResponseLength",
                "getNextPageToken", "getSerializedResponse"} =>
           /\ numElements' = numElements
           /\ ValueList' = ValueList
           /\ IsFullNow' = IsFullNow]_vars

\* the encoded size of one typical element in the value list
TypicalElementSize(c) ==
    LengthDelimitedSize(VALUE_LIST_NUMBER,
                        ElementByteSize(TypicalInstance(ValueClass(c))))

\* the smallest number of typical elements whose encoding reaches mrl
ReachedAfter(c, mrl) ==
    (mrl + TypicalElementSize(c) - 1) \div TypicalElementSize(c)

Min(a, b) == IF a <= b THEN a ELSE b

----------------------------------------------------------------------------
(* ProtoTypeSwitch.toCamelCase and toSnakeCase                             *)
(* A name is the sequence of its characters.                               *)

\* a field name has at most MaxNameLen characters
MaxNameLen == 4

\* a lower case letter, its upper case, a digit and the underscore
Chars == {"a", "A", "1", "_"}

Names == UNION {[1 .. n -> Chars] : n \in 0 .. MaxNameLen}

LowerLetters ==
    <<"a", "b", "c", "d", "e", "f", "g", "h", "i", "j", "k", "l", "m",
      "n", "o", "p", "q", "r", "s", "t", "u", "v", "w", "x", "y", "z">>

UpperLetters ==
    <<"A", "B", "C", "D", "E", "F", "G", "H", "I", "J", "K", "L", "M",
      "N", "O", "P", "Q", "R", "S", "T", "U", "V", "W", "X", "Y", "Z">>

Digits == {"0", "1", "2", "3", "4", "5", "6", "7", "8", "9"}

\* the place of the character in the letters, 0 when it is not among them
Place(c, letters) ==
    IF \E i \in DOMAIN letters : letters[i] = c
    THEN CHOOSE i \in DOMAIN letters : letters[i] = c
    ELSE 0

\* unicode.upper, unicode.lower, unicode.isnumeric of one character
upper(c) ==
    IF Place(c, LowerLetters) > 0 THEN UpperLetters[Place(c, LowerLetters)]
    ELSE c

lower(c) ==
    IF Place(c, UpperLetters) > 0 THEN LowerLetters[Place(c, UpperLetters)]
    ELSE c

isnumeric(c) == c \in Digits

\* the character is a letter (it has a case)
IsCased(c) == Place(c, LowerLetters) > 0 \/ Place(c, UpperLetters) > 0

\* s.lower()
Lower(s) == [i \in 1 .. Len(s) |-> lower(s[i])]

\* s.title(): a letter is in upper case exactly when no letter precedes it
title(s) ==
    [i \in 1 .. Len(s) |->
        IF i > 1 /\ IsCased(s[i - 1]) THEN lower(s[i]) ELSE upper(s[i])]

\* s.split('_'), the component being read kept in current
RECURSIVE SplitFrom(_, _, _)
SplitFrom(s, i, current) ==
    IF i > Len(s) THEN <<current>>
    ELSE IF s[i] = "_" THEN <<current>> \o SplitFrom(s, i + 1, << >>)
    ELSE SplitFrom(s, i + 1, Append(current, s[i]))

split(s) == SplitFrom(s, 1, << >>)

\* sep.join(components)
RECURSIVE join(_, _)
join(sep, components) ==
    IF components = << >> THEN << >>
    ELSE IF Len(components) = 1 THEN components[1]
    ELSE components[1] \o sep \o join(sep, Tail(components))

\* toCamelCase that lets every component start in upper case
toCamelCaseAll(snakeStr) ==
    LET components == split(snakeStr)
    IN  join(<< >>, [i \in 1 .. Len(components) |-> title(components[i])])

toCamelCase(snakeStr) ==
    LET components == split(snakeStr)
    IN  components[1]
        \o join(<< >>, [i \in 1 .. Len(components) - 1 |->
                           title(components[i + 1])])

\* the loop of toSnakeCase from character i on
RECURSIVE SnakeFrom(_, _, _, _)
SnakeFrom(camelStr, i, components, current) ==
    IF i > Len(camelStr) THEN Append(components, Lower(current))
    ELSE LET c == camelStr[i]
         IN  IF ~isnumeric(c) /\ upper(c) = c
             THEN SnakeFrom(camelStr, i + 1,
                            Append(components, Lower(current)), <<c>>)
             ELSE SnakeFrom(camelStr, i + 1, components, Append(current, c))

toSnakeCase(camelStr) ==
    join(<<"_">>, SnakeFrom(camelStr, 1, << >>, << >>))

----------------------------------------------------------------------------
(* Python values with their type: the value trees the creators build       *)

PyNone == [t |-> "NoneType"]

PyBool(b) == [t |-> "bool", v |-> b]

PyInt(i) == [t |-> "int", v |-> i]

\* a float, held by the integer it is equal to
PyFloat(x) == [t |-> "float", v |-> x]

PyStr(s) == [t |-> "str", v |-> s]

PyList(items) == [t |-> "list", v |-> items]

PyDict(members) == [t |-> "dict", v |-> members]

\* an exception of the class, where a value was to be returned
Raised(class) == [t |-> "raise", v |-> class]

INT_MIN_VALUE == -2147483647 - 1

INT_MAX_VALUE == 2147483647

----------------------------------------------------------------------------
(* The creators of prototools.py: one rule per kind of primitive value     *)

Policies == {"Typical", "Default", "Random", "Invalid"}

\* the kinds the creators have a rule for
PrimitiveKinds ==
    {"null", "boolean", "string", "bytes", "int", "long", "float", "double",
     "fixed"}

\* schema.size of the fixed kind
FixedSize == 3

RECURSIVE Repeat(_, _)
Repeat(s, n) == IF n = 0 THEN "" ELSE s \o Repeat(s, n - 1)

\* some of the strings of 10 printable characters handleString can draw
RandomStrings == {"0123456789", "invalidInt", "aString \t\n."}

\* some of the numbers randint and uniform can draw
RandomInts == {INT_MIN_VALUE, 0, 5, INT_MAX_VALUE}

RandomLongs == {INT_MIN_VALUE, -1, 0, 6, INT_MAX_VALUE}

RandomFloats == {INT_MIN_VALUE, 0, 7, INT_MAX_VALUE}

\* RandomInstanceCreator: the values a rule can return
RandomValues(kind) ==
    CASE kind = "null" -> {PyNone}
      [] kind = "boolean" -> {PyBool(TRUE), PyBool(FALSE)}
      [] kind = "string" -> {PyStr(x) : x \in RandomStrings}
      [] kind = "bytes" -> {PyStr(x) : x \in RandomStrings}
      [] kind = "int" -> {PyInt(i) : i \in RandomInts}
      [] kind = "long" -> {PyInt(i) : i \in RandomLongs}
      [] kind = "float" -> {PyFloat(x) : x \in RandomFloats}
      [] kind = "double" -> {PyFloat(x) : x \in RandomFloats}
      [] kind = "fixed" -> {PyStr(Repeat("x", FixedSize)),
                            PyStr(Repeat("4", FixedSize))}

\* TypicalInstanceCreator
TypicalValue(kind) ==
    CASE kind = "null" -> Raised("PrototoolsException")
      [] kind = "boolean" -> PyBool(TRUE)
      [] kind = "string" -> PyStr(TypicalString)
      [] kind = "bytes" -> PyStr("someBytes")
      [] kind = "int" -> PyInt(5)
      [] kind = "long" -> PyInt(6)
      [] kind = "float" -> PyFloat(7)
      [] kind = "double" -> PyFloat(8)
      [] kind = "fixed" -> PyStr(Repeat("x", FixedSize))

\* an InvalidInstanceCreator that answers the string rule with a string
InvalidValueString(kind) ==
    CASE kind = "null" -> PyInt(1)
      [] kind = "boolean" -> PyStr("invalidBoolean")
      [] kind = "string" -> PyStr("invalidString")
      [] kind = "bytes" -> PyInt(3)
      [] kind = "int" -> PyStr("invalidInt")
      [] kind = "long" -> PyStr("invalidLong")
      [] kind = "float" -> PyStr("invalidFloat")
      [] kind = "double" -> PyStr("invalidDouble")
      [] kind = "fixed" -> PyInt(4)

\* InvalidInstanceCreator
InvalidValue(kind) ==
    CASE kind = "null" -> PyInt(1)
      [] kind = "boolean" -> PyStr("invalidBoolean")
      [] kind = "string" -> PyInt(2)
      [] kind = "bytes" -> PyInt(3)
      [] kind = "int" -> PyStr("invalidInt")
      [] kind = "long" -> PyStr("invalidLong")
      [] kind = "float" -> PyStr("invalidFloat")
      [] kind = "double" -> PyStr("invalidDouble")
      [] kind = "fixed" -> PyInt(4)

\* the values the rule of a creator can return for a kind;
\* DefaultInstanceCreator inherits the rules of TypicalInstanceCreator
Handle(policy, kind) ==
    CASE policy = "Random" -> RandomValues(kind)
      [] policy = "Invalid" -> {InvalidValue(kind)}
      [] OTHER -> {TypicalValue(kind)}

----------------------------------------------------------------------------
(* The message classes of reference_service_pb2 and their descriptors     *)

\* FieldDescriptor.TYPE_* and LABEL_* of the fields of the schema
TYPE_INT64 == 3

TYPE_INT32 == 5

TYPE_STRING == 9

TYPE_MESSAGE == 11

LABEL_OPTIONAL == 1

LABEL_REPEATED == 3

\* the other types field_switch is keyed by, and the type of a bytes field
TYPE_DOUBLE == 1

TYPE_FLOAT == 2

TYPE_BOOL == 8

TYPE_BYTES == 12

TYPE_ENUM == 14

LABEL_REQUIRED == 2

\* the message classes reference_service_pb2 defines
ServiceClasses ==
    {"SearchReferenceSetsRequest", "SearchReferenceSetsResponse",
     "GetReferenceSetRequest", "SearchReferencesRequest",
     "SearchReferencesResponse", "GetReferenceRequest",
     "ListReferenceBasesRequest", "ListReferenceBasesResponse"}

\* the classes of the elements the responses carry
ElementClasses == {ValueClass(c) : c \in ResponseClasses}

\* protocol.getProtocolClasses()
ProtocolClasses == ServiceClasses \cup ElementClasses

\* descriptor.FieldDescriptor of a field
FieldDescriptor(name, number, type, label, message_type) ==
    [name |-> name, number |-> number, type |-> type, label |-> label,
     message_type |-> message_type, enum_type |-> None]

\* descriptor.FieldDescriptor of an enum field
EnumFieldDescriptor(name, number, label, enum_type) ==
    [name |-> name, number |-> number, type |-> TYPE_ENUM, label |-> label,
     message_type |-> None, enum_type |-> Str(enum_type)]

\* the fields of an element class: one string field, id
ElementFields ==
    <<FieldDescriptor(<<"i", "d">>, ID_NUMBER, TYPE_STRING, LABEL_OPTIONAL,
                      None)>>

\* a message class with required fields (descriptor_pb2 of the protobuf
\* library, proto2)
NamePart == "google.protobuf.UninterpretedOption.NamePart"

\* the type of the field value of the messages of wrappers_pb2 of the
\* protobuf library: a message with one singular field for each
\* primitive type
WrapperType ==
    [c \in {"google.protobuf.BoolValue", "google.protobuf.StringValue",
            "google.protobuf.BytesValue", "google.protobuf.Int32Value",
            "google.protobuf.Int64Value", "google.protobuf.FloatValue",
            "google.protobuf.DoubleValue"} |->
        CASE c = "google.protobuf.BoolValue" -> TYPE_BOOL
          [] c = "google.protobuf.StringValue" -> TYPE_STRING
          [] c = "google.protobuf.BytesValue" -> TYPE_BYTES
          [] c = "google.protobuf.Int32Value" -> TYPE_INT32
          [] c = "google.protobuf.Int64Value" -> TYPE_INT64
          [] c = "google.protobuf.FloatValue" -> TYPE_FLOAT
          [] c = "google.protobuf.DoubleValue" -> TYPE_DOUBLE]

WrapperClasses == DOMAIN WrapperType

\* messages of the modules protocol.py imports besides reference_service_pb2:
\* the generic value of struct_pb2 with its list and its struct, the entry
\* of the struct's map field, and Position of common_pb2 with its enum;
\* and the messages of the protobuf library above
LibraryClasses ==
    {"google.protobuf.Struct", "google.protobuf.Struct.FieldsEntry",
     "google.protobuf.Value", "google.protobuf.ListValue", "Position",
     NamePart} \cup WrapperClasses

\* the messages with the option map_entry
MapEntryClasses == {"google.protobuf.Struct.FieldsEntry"}

\* EnumDescriptor.values: the names of the values in definition order
EnumValues(enum_type) ==
    CASE enum_type = "google.protobuf.NullValue" -> <<"NULL_VALUE">>
      [] enum_type = "Strand" ->
          <<"STRAND_UNSPECIFIED", "NEG_STRAND", "POS_STRAND">>

LibraryFields(class_) ==
    CASE class_ = "google.protobuf.Struct" ->
          <<FieldDescriptor(
              <<"f", "i", "e", "l", "d", "s">>,
              1, TYPE_MESSAGE, LABEL_REPEATED,
              Str("google.protobuf.Struct.FieldsEntry"))>>
      [] class_ = "google.protobuf.Struct.FieldsEntry" ->
          <<FieldDescriptor(
              <<"k", "e", "y">>,
              1, TYPE_STRING, LABEL_OPTIONAL, None),
            FieldDescriptor(
              <<"v", "a", "l", "u", "e">>,
              2, TYPE_MESSAGE, LABEL_OPTIONAL, Str("google.protobuf.Value"))>>
      [] class_ = "google.protobuf.Value" ->
          <<EnumFieldDescriptor(
              <<"n", "u", "l", "l", "_", "v", "a", "l", "u", "e">>,
              1, LABEL_OPTIONAL, "google.protobuf.NullValue"),
            FieldDescriptor(
              <<"n", "u", "m", "b", "e", "r", "_", "v", "a", "l", "u", "e">>,
              2, TYPE_DOUBLE, LABEL_OPTIONAL, None),
            FieldDescriptor(
              <<"s", "t", "r", "i", "n", "g", "_", "v", "a", "l", "u", "e">>,
              3, TYPE_STRING, LABEL_OPTIONAL, None),
            FieldDescriptor(
              <<"b", "o", "o", "l", "_", "v", "a", "l", "u", "e">>,
              4, TYPE_BOOL, LABEL_OPTIONAL, None),
            FieldDescriptor(
              <<"s", "t", "r", "u", "c", "t", "_", "v", "a", "l", "u", "e">>,
              5, TYPE_MESSAGE, LABEL_OPTIONAL, Str("google.protobuf.Struct")),
            FieldDescriptor(
              <<"l", "i", "s", "t", "_", "v", "a", "l", "u", "e">>,
              6, TYPE_MESSAGE, LABEL_OPTIONAL,
              Str("google.protobuf.ListValue"))>>
      [] class_ = "google.protobuf.ListValue" ->
          <<FieldDescriptor(
              <<"v", "a", "l", "u", "e", "s">>,
              1, TYPE_MESSAGE, LABEL_REPEATED, Str("google.protobuf.Value"))>>
      [] class_ = "Position" ->
          <<FieldDescriptor(
              <<"r", "e", "f", "e", "r", "e", "n", "c", "e", "_", "n", "a", "m", "e">>,
              1, TYPE_STRING, LABEL_OPTIONAL, None),
            FieldDescriptor(
              <<"p", "o", "s", "i", "t", "i", "o", "n">>,
              2, TYPE_INT64, LABEL_OPTIONAL, None),
            EnumFieldDescriptor(
              <<"s", "t", "r", "a", "n", "d">>,
              3, LABEL_OPTIONAL, "Strand")>>
      [] class_ \in WrapperClasses ->
          <<FieldDescriptor(
              <<"v", "a", "l", "u", "e">>,
              1, WrapperType[class_], LABEL_OPTIONAL, None)>>
      [] class_ = NamePart ->
          <<FieldDescriptor(
              <<"n", "a", "m", "e", "_", "p", "a", "r", "t">>,
              1, TYPE_STRING, LABEL_REQUIRED, None),
            FieldDescriptor(
              <<"i", "s", "_", "e", "x", "t", "e", "n", "s", "i", "o", "n">>,
              2, TYPE_BOOL, LABEL_REQUIRED, None)>>

\* DESCRIPTOR.fields of the message classes
fields(class_) ==
    CASE class_ = "SearchReferenceSetsRequest" ->
          <<FieldDescriptor(
              <<"m", "d", "5", "c", "h", "e", "c", "k", "s", "u", "m">>,
              1, TYPE_STRING, LABEL_OPTIONAL, None),
            FieldDescriptor(
              <<"a", "c", "c", "e", "s", "s", "i", "o", "n">>,
              2, TYPE_STRING, LABEL_OPTIONAL, None),
            FieldDescriptor(
              <<"a", "s", "s", "e", "m", "b", "l", "y", "_", "i", "d">>,
              3, TYPE_STRING, LABEL_OPTIONAL, None),
            FieldDescriptor(
              <<"p", "a", "g", "e", "_", "s", "i", "z", "e">>,
              4, TYPE_INT32, LABEL_OPTIONAL, None),
            FieldDescriptor(
              <<"p", "a", "g", "e", "_", "t", "o", "k", "e", "n">>,
              5, TYPE_STRING, LABEL_OPTIONAL, None)>>
      [] class_ = "SearchReferenceSetsResponse" ->
          <<FieldDescriptor(
              <<"r", "e", "f", "e", "r", "e", "n", "c", "e", "_", "s", "e", "t", "s">>,
              1, TYPE_MESSAGE, LABEL_REPEATED, Str("ReferenceSet")),
            FieldDescriptor(
              <<"n", "e", "x", "t", "_", "p", "a", "g", "e", "_", "t", "o", "k", "e", "n">>,
              2, TYPE_STRING, LABEL_OPTIONAL, None)>>
      [] class_ = "GetReferenceSetRequest" ->
          <<FieldDescriptor(
              <<"r", "e", "f", "e", "r", "e", "n", "c", "e", "_", "s", "e", "t", "_", "i", "d">>,
              1, TYPE_STRING, LABEL_OPTIONAL, None)>>
      [] class_ = "SearchReferencesRequest" ->
          <<FieldDescriptor(
              <<"r", "e", "f", "e", "r", "e", "n", "c", "e", "_", "s", "e", "t", "_", "i", "d">>,
              1, TYPE_STRING, LABEL_OPTIONAL, None),
            FieldDescriptor(
              <<"m", "d", "5", "c", "h", "e", "c", "k", "s", "u", "m">>,
              2, TYPE_STRING, LABEL_OPTIONAL, None),
            FieldDescriptor(
              <<"a", "c", "c", "e", "s", "s", "i", "o", "n">>,
              3, TYPE_STRING, LABEL_OPTIONAL, None),
            FieldDescriptor(
              <<"p", "a", "g", "e", "_", "s", "i", "z", "e">>,
              4, TYPE_INT32, LABEL_OPTIONAL, None),
            FieldDescriptor(
              <<"p", "a", "g", "e", "_", "t", "o", "k", "e", "n">>,
              5, TYPE_STRING, LABEL_OPTIONAL, None)>>
      [] class_ = "SearchReferencesResponse" ->
          <<FieldDescriptor(
              <<"r", "e", "f", "e", "r", "e", "n", "c", "e", "s">>,
              1, TYPE_MESSAGE, LABEL_REPEATED, Str("Reference")),
            FieldDescriptor(
              <<"n", "e", "x", "t", "_", "p", "a", "g", "e", "_", "t", "o", "k", "e", "n">>,
              2, TYPE_STRING, LABEL_OPTIONAL, None)>>
      [] class_ = "GetReferenceRequest" ->
          <<FieldDescriptor(
              <<"r", "e", "f", "e", "r", "e", "n", "c", "e", "_", "i", "d">>,
              1, TYPE_STRING, LABEL_OPTIONAL, None)>>
      [] class_ = "ListReferenceBasesRequest" ->
          <<FieldDescriptor(
              <<"r", "e", "f", "e", "r", "e", "n", "c", "e", "_", "i", "d">>,
              1, TYPE_STRING, LABEL_OPTIONAL, None),
            FieldDescriptor(
              <<"s", "t", "a", "r", "t">>,
              2, TYPE_INT64, LABEL_OPTIONAL, None),
            FieldDescriptor(
              <<"e", "n", "d">>,
              3, TYPE_INT64, LABEL_OPTIONAL, None),
            FieldDescriptor(
              <<"p", "a", "g", "e", "_", "t", "o", "k", "e", "n">>,
              4, TYPE_STRING, LABEL_OPTIONAL, None)>>
      [] class_ = "ListReferenceBasesResponse" ->
          <<FieldDescriptor(
              <<"o", "f", "f", "s", "e", "t">>,
              1, TYPE_INT64, LABEL_OPTIONAL, None),
            FieldDescriptor(
              <<"s", "e", "q", "u", "e", "n", "c", "e">>,
              2, TYPE_STRING, LABEL_OPTIONAL, None),
            FieldDescriptor(
              <<"n", "e", "x", "t", "_", "p", "a", "g", "e", "_", "t", "o", "k", "e", "n">>,
              3, TYPE_STRING, LABEL_OPTIONAL, None)>>
      [] class_ \in ElementClasses -> ElementFields
      [] class_ \in LibraryClasses -> LibraryFields(class_)

\* the characters of a name as one string
RECURSIVE Flat(_)
Flat(name) == IF name = << >> THEN "" ELSE Head(name) \o Flat(Tail(name))

\* field.camelcase_name: the letter after an underscore in upper case,
\* the underscores left out
RECURSIVE CamelFrom(_, _, _)
CamelFrom(name, i, capitalizeNext) ==
    IF i > Len(name) THEN << >>
    ELSE IF name[i] = "_" THEN CamelFrom(name, i + 1, TRUE)
    ELSE <<IF capitalizeNext THEN upper(name[i]) ELSE name[i]>>
         \o CamelFrom(name, i + 1, FALSE)

camelcaseName(field) == Flat(CamelFrom(field.name, 1, FALSE))

\* the places of the fields of a class
FieldIndex(class_) == DOMAIN fields(class_)

\* the field of the class with the name
FieldNamed(class_, flatName) ==
    LET fs == fields(class_)
    IN  fs[CHOOSE i \in DOMAIN fs : Flat(fs[i].name) = flatName]

\* the field of the class with the camel case name
FieldByCamelcaseName(class_, key) ==
    LET fs == fields(class_)
    IN  fs[CHOOSE i \in DOMAIN fs : camelcaseName(fs[i]) = key]

\* an instance of a message class: a value for each of its fields
Message(class_, values) == [cls |-> class_, t |-> "message", v |-> values]

\* the proto3 default of a field
DefaultValue(field) ==
    IF field.label = LABEL_REPEATED THEN PyList(<< >>)
    ELSE CASE field.type = TYPE_STRING -> PyStr(DEFAULT_STRING)
           [] field.type \in {TYPE_INT32, TYPE_INT64} -> PyInt(0)
           [] field.type = TYPE_BOOL -> PyBool(FALSE)
           [] field.type = TYPE_MESSAGE -> PyNone

\* class_(): every field at its default
NewMessage(class_) ==
    Message(class_,
            [n \in {Flat(fields(class_)[i].name) : i \in FieldIndex(class_)}
                |-> DefaultValue(FieldNamed(class_, n))])

IsRaised(x) == x.t = "raise"

----------------------------------------------------------------------------
(* JSON text and google.protobuf.json_format                               *)

\* a string that is the JSON text of the document js
JsonText(js) == [t |-> "str", loads |-> js]

\* a string that is not JSON
MalformedText == [t |-> "str", loads |-> Raised("ValueError")]

\* json.dumps and json.loads
dumps(obj) == JsonText(obj)

loads(text) ==
    IF text.t # "str" THEN Raised("TypeError")
    ELSE IF "loads" \notin DOMAIN text THEN Raised("ValueError")
    ELSE text.loads

\* the integers whose decimal text int() is asked to read
DecimalInts == RandomInts \cup RandomLongs \cup {5, 6}

\* _ConvertInteger that takes numbers only
ConvertIntegerStrict(value) ==
    IF value.t = "int" THEN value ELSE Raised("ParseError")

\* json_format._ConvertInteger, with the int() it ends in
ConvertInteger(value) ==
    IF value.t = "float" THEN Raised("ParseError")
    ELSE IF value.t = "int" THEN value
    ELSE IF value.t = "bool" THEN PyInt(IF value.v THEN 1 ELSE 0)
    ELSE IF /\ value.t = "str"
            /\ "v" \in DOMAIN value
            /\ \E i \in DecimalInts : ToString(i) = value.v
    THEN PyInt(CHOOSE i \in DecimalInts : ToString(i) = value.v)
    ELSE Raised("ParseError")

\* json_format._ConvertScalarFieldValue and the type check of setattr
ConvertScalarFieldValue(value, field) ==
    CASE field.type = TYPE_STRING ->
            IF value.t = "str" /\ "v" \in DOMAIN value THEN value
            ELSE Raised("ParseError")
      [] field.type = TYPE_INT64 -> ConvertInteger(value)
      [] field.type = TYPE_INT32 ->
            LET n == ConvertInteger(value)
            IN  IF IsRaised(n) THEN n
                ELSE IF n.v < INT_MIN_VALUE \/ n.v > INT_MAX_VALUE
                THEN Raised("ParseError")
                ELSE n
      [] field.type = TYPE_BOOL ->
            IF value.t = "bool" THEN value ELSE Raised("ParseError")

RECURSIVE ConvertMessage(_, _)

\* one value of a field, an item of it when the field is repeated
ConvertSingle(value, field) ==
    IF field.type = TYPE_MESSAGE
    THEN ConvertMessage(value, field.message_type[1])
    ELSE ConvertScalarFieldValue(value, field)

\* json_format._ConvertFieldValuePair, for one member of the document
ConvertField(value, field) ==
    IF field.label = LABEL_REPEATED
    THEN IF value.t # "list" THEN Raised("ParseError")
         ELSE LET items == [i \in DOMAIN value.v |->
                               ConvertSingle(value.v[i], field)]
              IN  IF \E i \in DOMAIN items : IsRaised(items[i])
                  THEN Raised("ParseError")
                  ELSE PyList(items)
    ELSE ConvertSingle(value, field)

\* json_format._ConvertMessage: the instance the document describes,
\* or the ParseError
ConvertMessage(js, class_) ==
    IF js.t # "dict" THEN Raised("ParseError")
    ELSE LET fs == fields(class_)
             keys == {camelcaseName(fs[i]) : i \in DOMAIN fs}
             values ==
                 [n \in {Flat(fs[i].name) : i \in DOMAIN fs} |->
                     LET field == FieldNamed(class_, n)
                         key == camelcaseName(field)
                     IN  IF key \in DOMAIN js.v /\ js.v[key].t # "NoneType"
                         THEN ConvertField(js.v[key], field)
                         ELSE DefaultValue(field)]
         IN  IF \E k \in DOMAIN js.v : k \notin keys
             THEN Raised("ParseError")
             ELSE IF \E n \in DOMAIN values : IsRaised(values[n])
             THEN Raised("ParseError")
             ELSE Message(class_, values)

\* json_format.Parse(text, message): text.decode, json.loads,
\* _ConvertMessage
Parse(text, class_) ==
    IF text.t # "str" THEN Raised("AttributeError")
    ELSE IF IsRaised(loads(text)) THEN Raised("ParseError")
    ELSE ConvertMessage(loads(text), class_)

RECURSIVE MessageToJsonObjectOf(_)

\* json_format._FieldToJsonObject for one value: a message as a document,
\* a 64 bit integer as its decimal text
FieldToJsonObject(value, field) ==
    CASE field.type = TYPE_MESSAGE -> MessageToJsonObjectOf(value)
      [] field.type = TYPE_INT64 -> PyStr(ToString(value.v))
      [] OTHER -> value

\* json_format._MessageToJsonObject(message, False): the fields that are
\* set, under their camel case names
MessageToJsonObjectOf(message) ==
    LET fs == fields(message.cls)
        set == {i \in DOMAIN fs :
                   message.v[Flat(fs[i].name)] # DefaultValue(fs[i])}
    IN  PyDict([key \in {camelcaseName(fs[i]) : i \in set} |->
                   LET field == FieldByCamelcaseName(message.cls, key)
                       value == message.v[Flat(field.name)]
                   IN  IF field.label = LABEL_REPEATED
                       THEN PyList([j \in DOMAIN value.v |->
                                FieldToJsonObject(value.v[j], field)])
                       ELSE FieldToJsonObject(value, field)])

----------------------------------------------------------------------------
(* protocol.toJson, fromJson, toJsonDict, fromJsonDict and validate for    *)
(* the instances of every message class                                    *)

toJsonText(message) == dumps(MessageToJsonObjectOf(message))

fromJsonText(json, protoClass) == Parse(json, protoClass)

fromJsonDict(jsonDict, protoClass) == fromJsonText(dumps(jsonDict), protoClass)

toJsonDict(message) == loads(toJsonText(message))

\* validate that catches the ParseError only
validateParseError(json, protoClass) ==
    LET instance == fromJsonText(json, protoClass)
    IN  IF ~IsRaised(instance) THEN PyBool(TRUE)
        ELSE IF instance.v = "ParseError" THEN PyBool(FALSE)
        ELSE instance

validate(json, protoClass) ==
    PyBool(~IsRaised(fromJsonText(json, protoClass)))

----------------------------------------------------------------------------
(* ProtoTypeSwitch: the value trees of the message classes                 *)

\* the keys of field_switch a field's type can be equal to
SwitchTypes ==
    {TYPE_BOOL, TYPE_STRING, TYPE_INT64, TYPE_INT32, TYPE_FLOAT, TYPE_DOUBLE,
     TYPE_ENUM, TYPE_MESSAGE}

\* the rule field_switch has for the type of a field of the schema
FieldKind(type) ==
    CASE type = TYPE_STRING -> "string"
      [] type = TYPE_INT64 -> "long"
      [] type = TYPE_INT32 -> "int"
      [] type = TYPE_BOOL -> "boolean"
      [] type = TYPE_FLOAT -> "float"
      [] type = TYPE_DOUBLE -> "double"

\* json_format._IsMapEntry
IsMapEntry(fieldDescriptor) ==
    /\ fieldDescriptor.type = TYPE_MESSAGE
    /\ fieldDescriptor.message_type[1] \in MapEntryClasses

\* a handleEnum of the typical creator that takes the last value
handleEnumLast(policy, enum_type) ==
    LET values == EnumValues(enum_type)
    IN  CASE policy = "Random" -> {PyStr(values[i]) : i \in DOMAIN values}
          [] policy = "Invalid" -> {PyStr("invalidEnum")}
          [] OTHER -> {PyStr(values[Len(values)])}

\* handleEnum of the creators: the names it can return
handleEnum(policy, enum_type) ==
    LET values == EnumValues(enum_type)
    IN  CASE policy = "Random" -> {PyStr(values[i]) : i \in DOMAIN values}
          [] policy = "Invalid" -> {PyStr("invalidEnum")}
          [] OTHER -> {PyStr(values[1])}

RECURSIVE handleMessage(_, _)
RECURSIVE handleField(_, _)
RECURSIVE MembersFrom(_, _, _)

\* _runField: the values the handler of the field can return
runField(policy, fieldDescriptor) ==
    IF IsMapEntry(fieldDescriptor)
    THEN LET entry == fields(fieldDescriptor.message_type[1])
         IN  {PyDict(key.v :> value) :
                  key \in handleField(policy, entry[1]),
                  value \in handleField(policy, entry[2])}
    ELSE IF fieldDescriptor.type = TYPE_MESSAGE
    THEN handleMessage(policy, fieldDescriptor.message_type[1])
    ELSE IF fieldDescriptor.type = TYPE_ENUM
    THEN handleEnum(policy, fieldDescriptor.enum_type[1])
    ELSE Handle(policy, FieldKind(fieldDescriptor.type))

\* handleField: field_switch[fieldDescriptor.type] raises KeyError for a
\* type that is no key; a map field gets one entry, any other repeated
\* field a list of two values
handleField(policy, fieldDescriptor) ==
    IF fieldDescriptor.type \notin SwitchTypes
    THEN {Raised("KeyError")}
    ELSE IF IsMapEntry(fieldDescriptor)
    THEN runField(policy, fieldDescriptor)
    ELSE IF fieldDescriptor.label = LABEL_REPEATED
    THEN {PyList(<<a, b>>) : a \in runField(policy, fieldDescriptor),
                             b \in runField(policy, fieldDescriptor)}
    ELSE runField(policy, fieldDescriptor)

\* the loop of handleMessage from field i on
MembersFrom(policy, fs, i) ==
    IF i > Len(fs) THEN {<< >>}
    ELSE {(Flat(toCamelCase(fs[i].name)) :> value) @@ message :
              value \in handleField(policy, fs[i]),
              message \in MembersFrom(policy, fs, i + 1)}

\* the dict of the members, or what the first member that failed raised
Members(message) ==
    IF \E k \in DOMAIN message : IsRaised(message[k])
    THEN message[CHOOSE k \in DOMAIN message : IsRaised(message[k])]
    ELSE PyDict(message)

\* handleMessage: the jsonDicts of the schema a creator can build; the
\* generic value is not descended into
handleMessage(policy, schema) ==
    IF schema = "google.protobuf.Value"
    THEN {PyDict("numberValue" :> value) : value \in Handle(policy, "double")}
    ELSE {Members(message) :
              message \in MembersFrom(policy, fields(schema), 1)}

\* getInstance of the creator of the policy: the instances it can return.
\* DefaultInstanceCreator looks each field name up in a list of field
\* descriptors, finds none, and returns the instance of the empty jsonDict
getInstance(policy, class_) ==
    IF policy = "Default"
    THEN {fromJsonDict(toJsonDict(NewMessage(class_)), class_)}
    ELSE {fromJsonDict(jsonDict, class_) :
              jsonDict \in handleMessage(policy, class_)}

\* getFieldValue: the first field with the name, the last field of the
\* schema when the loop ends without a break
getFieldValue(policy, class_, fieldName) ==
    LET fs == fields(class_)
        found == {i \in DOMAIN fs : fs[i].name = fieldName}
        field == IF found # {}
                 THEN fs[CHOOSE i \in found : \A j \in found : i <= j]
                 ELSE fs[Len(fs)]
    IN  IF fs = << >> THEN {Raised("NameError")}
        ELSE handleField(policy, field)

\* Creator.getInvalidField
getInvalidField(class_, fieldName) ==
    getFieldValue("Invalid", class_, fieldName)

----------------------------------------------------------------------------
(* The functions of protocol.py and prototools.py, called on their own     *)

\* the builder is left as constructed while the functions are called
ToolsInit == Construct("SearchReferencesResponse", 0, 0)

\* the function called, what it was given and what came of it; a function
\* called on an input of its own is the first call of a chain
Applied(fn, input, output) ==
    /\ call.fn = "none"
    /\ call' = [fn |-> fn, input |-> input]
    /\ result' = output
    /\ UNCHANGED <<builder, op, argument, returned, exc, repeated, addCalls,
                   lastTokenArg, ctorArgs>>

ToCamelCase(snakeStr) ==
    Applied("toCamelCase", snakeStr, toCamelCase(snakeStr))

\* toSnakeCase of what toCamelCase made of the name call.input
ToSnakeCaseOfCamel ==
    /\ call.fn = "toCamelCase"
    /\ call' = [name |-> call.input, fn |-> "toSnakeCase", input |-> result]
    /\ result' = toSnakeCase(result)
    /\ UNCHANGED <<builder, op, argument, returned, exc, repeated, addCalls,
                   lastTokenArg, ctorArgs>>

\* a creator's rule for a primitive kind is called
HandleKind(policy, kind) ==
    \E value \in Handle(policy, kind) :
        Applied("handle", <<policy, kind>>, value)

\* a function is called on what an earlier call returned
Chained(next, output) ==
    /\ call' = next
    /\ result' = output
    /\ UNCHANGED <<builder, op, argument, returned, exc, repeated, addCalls,
                   lastTokenArg, ctorArgs>>

\* Creator.getTypicalInstance, getDefaultInstance, getRandomInstance,
\* getInvalidInstance
GetInstance(policy, class_) ==
    \E instance \in getInstance(policy, class_) :
        Applied("getInstance", <<policy, class_>>, instance)

\* protocol.toJson of the instance a creator returned
ToJson ==
    /\ call.fn = "getInstance"
    /\ ~IsRaised(result)
    /\ Chained([cls |-> result.cls, fn |-> "toJson",
                policy |-> call.input[1], input |-> result],
               toJsonText(result))

\* protocol.toJsonDict of the instance a creator returned
ToJsonDict ==
    /\ call.fn = "getInstance"
    /\ ~IsRaised(result)
    /\ Chained([cls |-> result.cls, fn |-> "toJsonDict",
                policy |-> call.input[1], input |-> result],
               toJsonDict(result))

\* protocol.fromJson of the text toJson returned
FromJson ==
    /\ call.fn = "toJson"
    /\ Chained([cls |-> call.cls, fn |-> "fromJson", policy |-> call.policy,
                instance |-> call.input, input |-> result],
               fromJsonText(result, call.cls))

\* protocol.fromJsonDict of the jsonDict toJsonDict returned
FromJsonDict ==
    /\ call.fn = "toJsonDict"
    /\ Chained([cls |-> call.cls, fn |-> "fromJsonDict",
                policy |-> call.policy, instance |-> call.input,
                input |-> result],
               fromJsonDict(result, call.cls))

\* the names getFieldValue is asked for: the names of the fields, the keys
\* of the jsonDict, and a name no field has
FieldNames(class_) ==
    {fields(class_)[i].name : i \in FieldIndex(class_)}
    \cup {toCamelCase(fields(class_)[i].name) : i \in FieldIndex(class_)}
    \cup {<<"x">>}

\* the classes whose schema the creators are asked to walk
SchemaClasses == ProtocolClasses \cup LibraryClasses

\* handleSchema of the descriptor of a class
HandleSchema(policy, class_) ==
    \E jsonDict \in handleMessage(policy, class_) :
        Applied("handleSchema", <<policy, class_>>, jsonDict)

GetFieldValue(policy, class_, fieldName) ==
    \E value \in getFieldValue(policy, class_, fieldName) :
        Applied("getFieldValue", <<policy, class_, fieldName>>, value)

\* the characters of a key of the jsonDict of an instance
KeyChars(class_, key) ==
    CamelFrom(FieldByCamelcaseName(class_, key).name, 1, FALSE)

\* testValidateBadValues: dct = dict(jsonDict), and for the keys chosen
\* dct[key] = getInvalidValue(cls, key)
Corrupt ==
    /\ call.fn = "toJsonDict"
    /\ call.policy = "Typical"
    /\ \E keys \in SUBSET (DOMAIN result.v) :
          /\ keys # {}
          /\ Chained([cls |-> call.cls, keys |-> keys, fn |-> "corrupt",
                      policy |-> call.policy, input |-> result],
                     PyDict([key \in DOMAIN result.v |->
                         IF key \in keys
                         THEN CHOOSE value \in
                                  getInvalidField(call.cls,
                                      KeyChars(call.cls, key)) : TRUE
                         ELSE result.v[key]]))

\* json.dumps of the dict with the bad values
Dumps ==
    /\ call.fn = "corrupt"
    /\ Chained([cls |-> call.cls, keys |-> call.keys, fn |-> "dumps",
                policy |-> call.policy, input |-> result],
               dumps(result))

\* protocol.validate of what the earlier call returned
Validate ==
    /\ call.fn \in {"toJson", "toJsonDict", "corrupt", "dumps"}
    /\ Chained([cls |-> call.cls, of |-> call.fn, fn |-> "validate",
                given |-> call.input, policy |-> call.policy,
                input |-> result],
               validate(result, call.cls))

\* the candidates testValidateBadValues passes, and a text that is not JSON
OtherCandidates == {PyNone, PyList(<< >>), PyInt(1), MalformedText}

ValidateOther(candidate, class_) ==
    /\ call.fn = "none"
    /\ Chained([cls |-> class_, of |-> "test", fn |-> "validate",
                given |-> candidate, policy |-> "none",
                input |-> candidate],
               validate(candidate, class_))

ToolsNext ==
    \/ \E snakeStr \in Names : ToCamelCase(snakeStr)
    \/ ToSnakeCaseOfCamel
    \/ \E policy \in Policies, kind \in PrimitiveKinds :
           HandleKind(policy, kind)
    \/ \E policy \in Policies, class_ \in ProtocolClasses :
           GetInstance(policy, class_)
    \/ \E policy \in {"Typical", "Default"} : GetInstance(policy, NamePart)
    \/ ToJson
    \/ ToJsonDict
    \/ FromJson
    \/ FromJsonDict
    \/ \E policy \in Policies, class_ \in SchemaClasses :
           \E fieldName \in FieldNames(class_) :
               GetFieldValue(policy, class_, fieldName)
    \/ \E policy \in Policies, class_ \in SchemaClasses :
           HandleSchema(policy, class_)
    \/ Corrupt
    \/ Dumps
    \/ Validate
    \/ \E candidate \in OtherCandidates, class_ \in ProtocolClasses :
           ValidateOther(candidate, class_)

ToolsSpec == ToolsInit /\ [][ToolsNext]_vars

----------------------------------------------------------------------------
(* Construction of further builders: __init__ and the registry             *)

\* the classes a builder is asked for: the keys of the registry and the
\* other message classes
BuilderClasses == DOMAIN valueListNameMap \cup ProtocolClasses

\* the maxResponseLength a further builder is constructed with
CtorLengths == {0, NeverReached}

\* a lookup that finds no key
KeyErrorAlways(map, key) == TRUE

\* map[key] raises KeyError: the key is not in the dict
KeyError(map, key) == key \notin DOMAIN map

\* SearchResponseBuilder(class, ps, mrl): the fields are those of the new
\* builder; when getValueListName raises, the caller gets no builder and is
\* left with the one it had
NewBuilder(class, ps, mrl) ==
    IF KeyError(valueListNameMap, class)
    THEN /\ Called("__init__", <<class, ps, mrl>>, None, "KeyError")
         /\ UNCHANGED <<builder, addCalls, lastTokenArg>>
    ELSE /\ responseClass' = class
         /\ pageSize' = ps
         /\ maxResponseLength' = mrl
         /\ numElements' = 0
         /\ nextPageToken' = None
         /\ protoObject' = NewResponse(class)
         /\ valueListName' = getValueListName(class)
         /\ op' = "__init__"
         /\ argument' = [of |-> "__init__", val |-> <<class, ps, mrl>>]
         /\ returned' = [of |-> "__init__", val |-> None]
         /\ exc' = ""
         /\ repeated' = (op = "__init__")
         /\ addCalls' = 0
         /\ lastTokenArg' = << >>
         /\ ctorArgs' = <<ps, mrl>>
         /\ UNCHANGED functions

\* a further builder is given up to MaxCtorAdds values
MaxCtorAdds == 2

\* addValue on a builder whose element class has a descriptor
AddToBuilder(protocolElement) ==
    /\ responseClass \in ResponseClasses
    /\ addCalls < MaxCtorAdds
    /\ addValue(protocolElement)

CtorNext ==
    \/ \E class \in BuilderClasses, ps \in PageSizes, mrl \in CtorLengths :
           NewBuilder(class, ps, mrl)
    \/ \E protocolElement \in Elements : AddToBuilder(protocolElement)

CtorSpec == Init /\ [][CtorNext]_vars

\* C22: constructing a builder for a class that is no key of the registry
\* raises KeyError and gives no builder; for a class of the registry the
\* new builder holds the registered name, and addValue appends to the field
\* of that name and to no other.
RegistryGoverns ==
    [][/\ op' = "__init__" =>
            IF arg'[1] \in DOMAIN valueListNameMap
            THEN /\ exc' = ""
                 /\ responseClass' = arg'[1]
                 /\ valueListName' = valueListNameMap[arg'[1]]
                 /\ DOMAIN protoObject' =
                        {valueListNameMap[arg'[1]], "next_page_token"}
            ELSE /\ exc' = "KeyError"
                 /\ builder' = builder
       /\ (op' = "addValue" /\ exc' = "") =>
            protoObject' = [protoObject EXCEPT
                ![valueListNameMap[responseClass]] = Append(@, arg')]]_vars

\* a builder of a registered class was given a value, and the next
\* construction, for a class that is not registered, has failed
RegistryGovernsWitness ==
    /\ op = "__init__" /\ exc = "KeyError"
    /\ arg[1] = "GetReferenceRequest"
    /\ responseClass = "SearchReferenceSetsResponse"
    /\ Len(protoObject["reference_sets"]) = 1

----------------------------------------------------------------------------
(* Properties of the case converter                                        *)

\* C13 as stated: toSnakeCase(toCamelCase(n)) = n for every name n over
\* letters, digits and the underscore.
SnakeOfCamelIsName ==
    call.fn = "toSnakeCase" => result = call.name

\* no letter of the component follows a digit
LettersBeforeDigits(component) ==
    \A i \in 2 .. Len(component) :
        IsCased(component[i]) => IsCased(component[i - 1])

\* a name in lower case whose components after the first each start with
\* a letter and have their digits at the end
IsSnakeName(n) ==
    LET components == split(n)
    IN  /\ \A i \in 1 .. Len(n) : lower(n[i]) = n[i]
        /\ \A k \in 2 .. Len(components) :
               /\ components[k] # << >>
               /\ IsCased(components[k][1])
               /\ LettersBeforeDigits(components[k])

\* C13 amended: toSnakeCase(toCamelCase(n)) = n exactly for the names n in
\* lower case whose components after the first each start with a letter
\* and have no letter after a digit.
SnakeOfCamelIsSnakeName ==
    call.fn = "toSnakeCase" => (result = call.name <=> IsSnakeName(call.name))

SnakeOfCamelIsSnakeNameWitness ==
    /\ call.fn = "toSnakeCase"
    /\ call.name = <<"a", "_", "a", "1">>
    /\ call.input = <<"a", "A", "1">>
    /\ result = call.name

----------------------------------------------------------------------------
(* Properties of the creators                                              *)

\* the Python types a value of the kind has
ExpectedTypes(kind) ==
    CASE kind = "null" -> {"NoneType"}
      [] kind = "boolean" -> {"bool"}
      [] kind \in {"string", "bytes", "fixed"} -> {"str"}
      [] kind \in {"int", "long"} -> {"int"}
      [] kind \in {"float", "double"} -> {"float"}

\* C18: for every primitive kind, what the Random rule returns is never
\* the value the Invalid rule returns nor of its type, and what the
\* Invalid rule returns is never of a type the kind expects.
RandomAndInvalidAreDisjoint ==
    call.fn = "handle" =>
        LET policy == call.input[1]
            kind == call.input[2]
        IN  /\ policy = "Random" =>
                /\ result # InvalidValue(kind)
                /\ result.t # InvalidValue(kind).t
                /\ result.t \in ExpectedTypes(kind)
            /\ policy = "Invalid" =>
                /\ result.t \notin ExpectedTypes(kind)
                /\ result \notin RandomValues(kind)

RandomAndInvalidAreDisjointWitness ==
    /\ call.fn = "handle"
    /\ call.input = <<"Random", "string">>
    /\ result = PyStr("invalidInt")

----------------------------------------------------------------------------
(* Properties of the conversion and of the validator                       *)

\* C17: for every message class and every policy of Typical, Default and
\* Random, fromJson(toJson(i)) and fromJsonDict(toJsonDict(i)) are the
\* instance i the creator returned.
RoundTripIsIdentity ==
    (call.fn \in {"fromJson", "fromJsonDict"}
        /\ call.policy \in {"Typical", "Default", "Random"})
    => result = call.instance

RoundTripIsIdentityWitness ==
    /\ call.fn = "fromJson"
    /\ call.policy = "Random"
    /\ call.cls = "ListReferenceBasesRequest"
    /\ call.input.loads.v["start"] = PyStr("-1")
    /\ "end" \notin DOMAIN call.input.loads.v
    /\ result = call.instance
    /\ result.v["start"] = PyInt(-1)
    /\ result.v["end"] = PyInt(0)

\* the candidate gets as far as the type check of the fields, and fails it
RejectedByTypeCheck(candidate, class_) ==
    /\ candidate.t = "str"
    /\ ~IsRaised(loads(candidate))
    /\ IsRaised(ConvertMessage(loads(candidate), class_))

\* C14: for every message class, validate is true of the JSON of a
\* Typical instance, and false of that instance's jsonDict with the
\* fields of any non-empty set replaced by their Invalid value, because
\* the type check of the schema rejects a replaced field.
ValidatorIsSound ==
    call.fn = "validate" =>
        /\ (call.of = "toJson" /\ call.policy = "Typical")
               => result = PyBool(TRUE)
        /\ call.of = "corrupt" =>
               /\ result = PyBool(FALSE)
               /\ RejectedByTypeCheck(call.input, call.cls)

\* C15: validate never raises; it returns True exactly when the parse of
\* the candidate succeeds and False when the parse fails for any reason,
\* a candidate that is no string included.
ValidateNeverRaises ==
    call.fn = "validate" =>
        /\ result.t = "bool"
        /\ result.v <=> ~IsRaised(Parse(call.input, call.cls))
        /\ call.input.t # "str" => ~result.v

ValidateNeverRaisesWitness ==
    /\ call.fn = "validate"
    /\ call.of = "test"
    /\ call.input.t = "NoneType"
    /\ Parse(call.input, call.cls) = Raised("AttributeError")
    /\ result = PyBool(FALSE)

\* C16: getFieldValue with a name none of the fields of the schema has
\* fails with an error of the LookupError class, and returns the value of
\* no other field.
UnknownFieldNameIsALookupError ==
    call.fn = "getFieldValue" =>
        LET class_ == call.input[2]
            fieldName == call.input[3]
        IN  (\A i \in FieldIndex(class_) :
                 fields(class_)[i].name # fieldName)
            => /\ IsRaised(result)
               /\ result.v \in {"LookupError", "KeyError", "IndexError"}


----------------------------------------------------------------------------
(* Properties of the synthesis of field values                             *)

\* the default length of RandomInstanceCreator.handleArray
ArrayLength == 10

\* getFieldValue was called for a repeated field of the class
OfRepeatedField ==
    /\ call.fn = "getFieldValue"
    /\ \E i \in FieldIndex(call.input[2]) :
           /\ fields(call.input[2])[i].name = call.input[3]
           /\ fields(call.input[2])[i].label = LABEL_REPEATED

\* C23: for a repeated field the creators return a list of 2 elements
\* under the Typical and Default policies, a list of 10 elements under the
\* Random policy, and a value that is no list under the Invalid policy.
RepeatedFieldShapes ==
    OfRepeatedField =>
        CASE call.input[1] \in {"Typical", "Default"} ->
                 result.t = "list" /\ Len(result.v) = 2
          [] call.input[1] = "Random" ->
                 result.t = "list" /\ Len(result.v) = ArrayLength
          [] call.input[1] = "Invalid" ->
                 result.t # "list"

\* getFieldValue was called with the name of a field of the class
IsFieldCall ==
    /\ call.fn = "getFieldValue"
    /\ \E i \in FieldIndex(call.input[2]) :
           fields(call.input[2])[i].name = call.input[3]

\* the field getFieldValue was called for
CalledField == FieldNamed(call.input[2], Flat(call.input[3]))

\* C25: for an enum field, Typical and Default return the name of the
\* first declared value, Random the name of one of the declared values,
\* and Invalid a string that is the name of no declared value.
EnumFieldValues ==
    (IsFieldCall /\ CalledField.type = TYPE_ENUM) =>
        LET values == EnumValues(CalledField.enum_type[1])
        IN  /\ result.t = "str"
            /\ CASE call.input[1] \in {"Typical", "Default"} ->
                         result.v = values[1]
                  [] call.input[1] = "Random" ->
                         \E j \in DOMAIN values : result.v = values[j]
                  [] call.input[1] = "Invalid" ->
                         \A j \in DOMAIN values : result.v # values[j]

EnumFieldValuesWitness ==
    /\ IsFieldCall /\ CalledField.type = TYPE_ENUM
    /\ call.input[1] = "Random"
    /\ call.input[2] = "Position"
    /\ result = PyStr("POS_STRAND")

\* the default size of RandomInstanceCreator.handleMap
MapSize == 10

\* C24: for a map field the creators return a mapping with exactly one
\* entry under a fixed key under the Typical policy, a mapping with 10
\* entries under the Random policy, and a value that is no mapping under
\* the Invalid policy.
MapFieldShapes ==
    (IsFieldCall /\ IsMapEntry(CalledField)) =>
        CASE call.input[1] = "Typical" ->
                 result.t = "dict" /\ DOMAIN result.v = {TypicalString}
          [] call.input[1] = "Random" ->
                 result.t = "dict" /\ Cardinality(DOMAIN result.v) = MapSize
          [] call.input[1] = "Invalid" ->
                 result.t # "dict"
          [] OTHER -> TRUE

\* the keys handleMessage gives the fields of a schema
KeysOf(schema) ==
    {Flat(toCamelCase(fields(schema)[i].name)) : i \in FieldIndex(schema)}

\* the value is a mapping with one key for each field of the schema, and
\* so is what it holds for each message field; for the generic value it
\* is a mapping with the key numberValue alone, which holds no mapping
RECURSIVE IsWalkOf(_, _)
IsWalkOf(value, schema) ==
    /\ value.t = "dict"
    /\ IF schema = "google.protobuf.Value"
       THEN /\ DOMAIN value.v = {"numberValue"}
            /\ value.v["numberValue"].t # "dict"
       ELSE /\ DOMAIN value.v = KeysOf(schema)
            /\ Cardinality(DOMAIN value.v) = Len(fields(schema))
            /\ \A i \in FieldIndex(schema) :
                   LET field == fields(schema)[i]
                       member == value.v[Flat(toCamelCase(field.name))]
                   IN  field.type = TYPE_MESSAGE =>
                         IF IsMapEntry(field)
                         THEN \A k \in DOMAIN member.v :
                                  IsWalkOf(member.v[k],
                                      fields(field.message_type[1])[2]
                                          .message_type[1])
                         ELSE IF field.label = LABEL_REPEATED
                         THEN \A j \in DOMAIN member.v :
                                  IsWalkOf(member.v[j], field.message_type[1])
                         ELSE IsWalkOf(member, field.message_type[1])

\* C26: the walk of a schema whose cycles pass through the generic value
\* ends: a generic value becomes a mapping with the key numberValue alone,
\* whose fields are not walked, and any other message a mapping with one
\* key toCamelCase(f.name) for each field f of its schema.
WalkEndsAtTheGenericValue ==
    call.fn = "handleSchema" => IsWalkOf(result, call.input[2])

\* C27: the instance of the Default policy holds the Typical value in
\* every required field of the schema and the zero value in every other
\* field, so that for a class with required fields it differs from the
\* new instance of the class in exactly the required fields.
DefaultSetsTheRequiredFields ==
    (call.fn = "getInstance" /\ call.input[1] = "Default") =>
        \A i \in FieldIndex(call.input[2]) :
            LET field == fields(call.input[2])[i]
                n == Flat(field.name)
            IN  IF field.label = LABEL_REQUIRED
                THEN \E typical \in getInstance("Typical", call.input[2]) :
                         result.v[n] = typical.v[n]
                ELSE result.v[n] = DefaultValue(field)

\* the kind of a primitive type
KindOfType(type) == IF type = TYPE_BYTES THEN "bytes" ELSE FieldKind(type)

\* C28: for a singular field of each primitive kind, handleField finds a
\* rule: the Typical policy returns the constant of the kind, and the
\* Random policy an int within the limits of int32 for an int32 field and
\* an int for an int64 field.
EveryKindHasARule ==
    (IsFieldCall /\ call.input[2] \in WrapperClasses) =>
        /\ ~IsRaised(result)
        /\ call.input[1] = "Typical" =>
               result = TypicalValue(KindOfType(CalledField.type))
        /\ (call.input[1] = "Random" /\ CalledField.type = TYPE_INT32) =>
               /\ result.t = "int"
               /\ INT_MIN_VALUE <= result.v /\ result.v <= INT_MAX_VALUE
        /\ (call.input[1] = "Random" /\ CalledField.type = TYPE_INT64) =>
               result.t = "int"

----------------------------------------------------------------------------
(* The case converter, segment by segment                                  *)

\* the name with an underscore before each upper case letter and every
\* letter in lower case
RECURSIVE SegmentsJoined(_)
SegmentsJoined(s) ==
    IF s = << >> THEN << >>
    ELSE (IF Place(Head(s), UpperLetters) > 0
          THEN <<"_", lower(Head(s))>>
          ELSE <<lower(Head(s))>>) \o SegmentsJoined(Tail(s))

\* C29: toCamelCase(s) is the first of the segments of s between the
\* underscores in lower case, followed by the later segments in title
\* case; toSnakeCase starts a segment at each upper case letter and joins
\* the segments, in lower case, with single underscores.
ConvertsSegmentBySegment ==
    /\ call.fn = "toCamelCase" =>
           LET components == split(call.input)
           IN  result =
                   Lower(components[1])
                   \o join(<< >>, [i \in 1 .. Len(components) - 1 |->
                                      title(components[i + 1])])
    /\ call.fn = "toSnakeCase" => result = SegmentsJoined(call.input)

====
